---- MODULE Spec2Model ----
(***************************************************************************)
(* Model of src/ROTC_Weather.py: the guidance engine (thermal indices,     *)
(* hazard classification, decision policy) and the two request handlers    *)
(* (dashboard, weekly).                                                    *)
(*                                                                         *)
(* Units.  Python floats are modelled in fixed point:                      *)
(*   temperatures in degrees F  : tenths        (50 F    = 500)            *)
(*   wind speed in mph          : tenths        (3 mph   = 30)             *)
(*   wind chill in degrees F    : thousandths   (-20 F   = -20000)         *)
(*   WBGT in degrees F          : hundredths    (81.9 F  = 8190)           *)
(*   temperatures in degrees C  : 1e-4 degrees  (35 C    = 350000)         *)
(* Strings that the code inspects (condition text, query parameters) are   *)
(* sequences of one-character strings.  Python's None is the empty tuple   *)
(* and a present value v is the one-element tuple <<v>>.                   *)
(***************************************************************************)
EXTENDS Integers, Sequences, FiniteSets, TLC

VARIABLES call, request, fetches, response

vars == <<call, request, fetches, response>>

\* ---------------------------------------------------------------------
\* Optional values (Python None)
\* ---------------------------------------------------------------------
None == <<>>

Some(v) == <<v>>

IsNone(o) == Len(o) = 0

Val(o) == o[1]

\* ---------------------------------------------------------------------
\* Strings as character sequences: str.lower, `in`, str.strip, float()
\* ---------------------------------------------------------------------
UpperChars == <<"A","B","C","D","E","F","G","H","I","J","K","L","M",
                "N","O","P","Q","R","S","T","U","V","W","X","Y","Z">>

LowerChars == <<"a","b","c","d","e","f","g","h","i","j","k","l","m",
                "n","o","p","q","r","s","t","u","v","w","x","y","z">>

\* str.lower on one character, as a table over the upper-case letters
LowerMap == [u \in {UpperChars[i] : i \in 1..26} |->
                LowerChars[CHOOSE i \in 1..26 : UpperChars[i] = u]]

LowerChar(ch) == IF ch \in DOMAIN LowerMap THEN LowerMap[ch] ELSE ch

Lower(s) == [i \in 1..Len(s) |-> LowerChar(s[i])]

\* Python `needle in hay` for strings
Contains(hay, needle) ==
    \E h \in {hay} :
        \E i \in 0..(Len(h) - Len(needle)) :
            SubSeq(h, i + 1, i + Len(needle)) = needle

RECURSIVE LStrip(_)
LStrip(s) == IF s # <<>> /\ Head(s) = " " THEN LStrip(Tail(s)) ELSE s

RECURSIVE RStrip(_)
RStrip(s) ==
    IF s # <<>> /\ s[Len(s)] = " " THEN RStrip(SubSeq(s, 1, Len(s) - 1)) ELSE s

Strip(s) == RStrip(LStrip(s))

DigitChars == <<"0","1","2","3","4","5","6","7","8","9">>

IsDigit(ch) == \E i \in 1..10 : DigitChars[i] = ch

DigitVal(ch) == (CHOOSE i \in 1..10 : DigitChars[i] = ch) - 1

RECURSIVE DecVal(_)
DecVal(ds) ==
    IF ds = <<>> THEN 0
    ELSE 10 * DecVal(SubSeq(ds, 1, Len(ds) - 1)) + DigitVal(ds[Len(ds)])

\* float(s) for a str s, on decimal literals  [+-] digits [. digits]  :
\* None stands for ValueError, otherwise the value in tenths (the inputs of
\* the model carry at most one fractional digit).
ParseFloat(s) ==
    LET t     == Strip(s)
        neg   == t # <<>> /\ Head(t) = "-"
        body  == IF t # <<>> /\ Head(t) \in {"-", "+"} THEN Tail(t) ELSE t
        dots  == {i \in 1..Len(body) : body[i] = "."}
        dot   == IF dots = {} THEN Len(body) + 1 ELSE CHOOSE i \in dots : TRUE
        ip    == SubSeq(body, 1, dot - 1)
        fp    == SubSeq(body, dot + 1, Len(body))
        wellformed ==
            /\ Cardinality(dots) <= 1
            /\ \A i \in 1..Len(body) : IsDigit(body[i]) \/ body[i] = "."
            /\ Len(ip) + Len(fp) >= 1
        mag   == 10 * DecVal(ip) + (IF fp = <<>> THEN 0 ELSE DigitVal(fp[1]))
    IN  IF wellformed THEN Some(IF neg THEN 0 - mag ELSE mag) ELSE None

\* Division rounded to the nearest integer (d > 0), the fixed-point form
\* of float arithmetic followed by round().
RoundDiv(n, d) == (2 * n + d) \div (2 * d)

\* ---------------------------------------------------------------------
\* CONFIG
\* ---------------------------------------------------------------------
WBGT_CUTOFF_F == 500

\* ---------------------------------------------------------------------
\* Thermal index calculator
\* ---------------------------------------------------------------------
\* (Tf - 32.0) * 5.0 / 9.0 : tenths of a degree F -> 1e-4 degrees C
f_to_c(Tf) == RoundDiv((Tf - 320) * 5000, 9)

\* Tc * 9.0 / 5.0 + 32.0 : 1e-4 degrees C -> 1e-4 degrees F
c_to_f(Tc) == RoundDiv(Tc * 9, 5) + 320000

\* round(x, 2) and round(x, 1) of a value in 1e-4 units, result in 1e-4
Round2(x) == RoundDiv(x, 100) * 100

Round1(x) == RoundDiv(x, 1000) * 1000

\* wind_mph ** 0.16, scaled by 1000, at the wind speeds of the model
Pow016(wind_mph) ==
    CASE wind_mph = 30  -> 1192
      [] wind_mph = 31  -> 1198
      [] wind_mph = 50  -> 1294
      [] wind_mph = 100 -> 1445
      [] wind_mph = 150 -> 1542
      [] wind_mph = 250 -> 1674

\* 35.74 + 0.6215*T - 35.75*V^0.16 + 0.4275*T*V^0.16, in thousandths of a
\* degree F (T in tenths of a degree, V^0.16 scaled by 1000).
WindChillFormula(Tf, wind_mph) ==
    35740 + ((6215 * Tf) \div 100)
          - ((3575 * Pow016(wind_mph)) \div 100)
          + ((171 * Tf * Pow016(wind_mph)) \div 4000)

\* Mutant: the wind guard written `< 3` instead of `<= 3`.
wind_chill_f_strictwind(Tf, wind_mph) ==
    IF Tf > 500 \/ wind_mph < 30 THEN None
    ELSE Some(WindChillFormula(Tf, wind_mph))

\* None when Tf > 50 or wind_mph <= 3, else the wind chill.
wind_chill_f(Tf, wind_mph) ==
    IF Tf > 500 \/ wind_mph <= 30 THEN None
    ELSE Some(WindChillFormula(Tf, wind_mph))

\* Stull wet-bulb formula (atan, sqrt), tabulated from the source formula
\* at the (Tc, rh) points the model evaluates; Tc and result in 1e-4 C.
\* rh is in tenths of a percent and within [0,100] at every point, so
\* the clamp max(0, min(100, rh)) is the identity.
approx_natural_wet_bulb(Tc, rh) ==
    CASE Tc = -206000 /\ rh = 800 -> -214516
      [] Tc = -205600 /\ rh = 800 -> -214132
      [] Tc = -205556 /\ rh = 800 -> -214089
      [] Tc = -122222 /\ rh = 700 -> -137392
      [] Tc = -122200 /\ rh = 700 -> -137372
      [] Tc = -122000 /\ rh = 700 -> -137186
      [] Tc = 72200 /\ rh = 810 -> 53502
      [] Tc = 72200 /\ rh = 900 -> 61814
      [] Tc = 100000 /\ rh = 500 -> 51013
      [] Tc = 287200 /\ rh = 810 -> 260481
      [] Tc = 350000 /\ rh = 600 -> 284883
      [] Tc = 377778 /\ rh = 600 -> 309843
      [] Tc = 377800 /\ rh = 600 -> 309862
      [] Tc = 378000 /\ rh = 600 -> 310042

\* wbgt_c = 0.7 * Tw + 0.3 * Tg, Tg = Tc + 3.0 when sunny
approx_wbgt(Tc, rh, sunny) ==
    LET Tw == approx_natural_wet_bulb(Tc, rh)
        Tg == IF sunny THEN Tc + 30000 ELSE Tc
    IN  RoundDiv(7 * Tw + 3 * Tg, 10)

\* ---------------------------------------------------------------------
\* Hazard classifier
\* ---------------------------------------------------------------------
\* Result <<label, severity>>; wbgt_f in hundredths of a degree F.
heat_category_from_wbgt_f(wbgt_f) ==
    IF wbgt_f < 7800 THEN <<"Below White", 1>>
    ELSE IF 7800 <= wbgt_f /\ wbgt_f <= 8190 THEN <<"White (Cat 1)", 1>>
    ELSE IF 8200 <= wbgt_f /\ wbgt_f <= 8490 THEN <<"Green (Cat 2)", 2>>
    ELSE IF 8500 <= wbgt_f /\ wbgt_f <= 8790 THEN <<"Yellow (Cat 3)", 3>>
    ELSE IF 8800 <= wbgt_f /\ wbgt_f <= 8990 THEN <<"Red (Cat 4)", 4>>
    ELSE <<"Black (Cat 5)", 5>>

K_thunder == <<"t","h","u","n","d","e","r">>
K_storm == <<"s","t","o","r","m">>
K_freezing_rain == <<"f","r","e","e","z","i","n","g"," ","r","a","i","n">>
K_freezing == <<"f","r","e","e","z","i","n","g">>
K_rain == <<"r","a","i","n">>
K_sleet == <<"s","l","e","e","t">>
K_ice == <<"i","c","e">>
K_icy == <<"i","c","y">>
K_blizzard == <<"b","l","i","z","z","a","r","d">>
K_heavy_snow == <<"h","e","a","v","y"," ","s","n","o","w">>
K_snow == <<"s","n","o","w">>
K_flurr == <<"f","l","u","r","r">>
K_heavy_rain == <<"h","e","a","v","y"," ","r","a","i","n">>
K_torrential == <<"t","o","r","r","e","n","t","i","a","l">>
K_shower == <<"s","h","o","w","e","r">>
K_drizzle == <<"d","r","i","z","z","l","e">>
K_light_rain == <<"l","i","g","h","t"," ","r","a","i","n">>
K_fog == <<"f","o","g">>
K_mist == <<"m","i","s","t">>

\* Result <<level, note, override>>; cond_text is None or Some(text), and
\* (cond_text or "") is the empty text for None.
interpret_condition(cond_text) ==
    LET c == Lower(IF IsNone(cond_text) THEN <<>> ELSE Val(cond_text))
    IN  IF Contains(c, K_thunder) \/ Contains(c, K_storm)
        THEN <<"extreme", "Thunderstorm / lightning risk", Some("NO OUTDOOR TRAINING")>>
        ELSE IF Contains(c, K_freezing_rain)
                \/ (Contains(c, K_freezing) /\ Contains(c, K_rain))
        THEN <<"extreme", "Freezing rain / ice risk", Some("NO OUTDOOR TRAINING")>>
        ELSE IF Contains(c, K_sleet) \/ Contains(c, K_ice) \/ Contains(c, K_icy)
        THEN <<"extreme", "Icy conditions", Some("NO OUTDOOR TRAINING")>>
        ELSE IF Contains(c, K_blizzard)
        THEN <<"extreme", "Blizzard / near-zero visibility", Some("NO OUTDOOR_TRAINING")>>
        ELSE IF Contains(c, K_heavy_snow)
        THEN <<"high", "Heavy snow - visibility & slip risk", None>>
        ELSE IF Contains(c, K_snow) \/ Contains(c, K_flurr)
        THEN <<"moderate", "Snow present - traction/visibility caution", None>>
        ELSE IF Contains(c, K_heavy_rain) \/ Contains(c, K_torrential)
        THEN <<"high", "Heavy rain - hypothermia & slip risk", None>>
        ELSE IF Contains(c, K_rain) \/ Contains(c, K_shower)
        THEN <<"moderate", "Rain - wet/hypothermia risk", None>>
        ELSE IF Contains(c, K_drizzle) \/ Contains(c, K_light_rain)
        THEN <<"low", "Light rain / drizzle", None>>
        ELSE IF Contains(c, K_fog) \/ Contains(c, K_mist)
        THEN <<"moderate", "Fog / reduced visibility", None>>
        ELSE <<"low", "No precipitation hazards", None>>


\* ---------------------------------------------------------------------
\* Decision policy
\* ---------------------------------------------------------------------
\* Mutant: the wind-chill bands tested before the heat-category rule.
recommend_uniform_option_a_coldfirst(temp_f, wc, heat_cat_num, wbgt_applicable, precip_level) ==
    IF precip_level = "extreme"
    THEN <<"Suspend outdoor training due to dangerous precipitation (lightning/ice).", 3>>
    ELSE IF ~IsNone(wc) /\ Val(wc) <= -20000
    THEN <<"Arctic clothing / extreme cold gear. No exposed skin. No outdoor training.", 3>>
    ELSE IF ~IsNone(wc) /\ Val(wc) <= 0
    THEN <<"Parka + layered clothing + gloves + balaclava. Move indoors for prolonged training.", 2>>
    ELSE IF ~IsNone(wc) /\ Val(wc) <= 20000
    THEN <<"OCP + parka + gloves + warm layers. Limit prolonged exposed activities.", 2>>
    ELSE IF ~IsNone(wc) /\ Val(wc) <= 32000
    THEN <<"OCP + fleece + gloves recommended.", 1>>
    ELSE IF wbgt_applicable /\ ~IsNone(heat_cat_num)
    THEN (IF Val(heat_cat_num) >= 5
          THEN <<"Light clothing only; no armor; full hydration and move indoors", 3>>
          ELSE IF Val(heat_cat_num) = 4
          THEN <<"Light OCP/PT, reduce load, hydrate frequently", 2>>
          ELSE IF Val(heat_cat_num) = 3
          THEN <<"OCP, consider modified load and frequent water breaks", 1>>
          ELSE <<"Standard OCP/PT uniform", 0>>)
    ELSE IF temp_f <= 500 /\ temp_f > 330
    THEN <<"OCP + fleece optional; monitor wind and wetness.", 1>>
    ELSE <<"Standard OCP/PT uniform", 0>>

\* Result <<uniform text, severity>>.  A defined wind chill above 32 F
\* matches none of the inner bands and falls through to the temperature
\* rule, as the Python `if` block without a final return does.
recommend_uniform_option_a(temp_f, wc, heat_cat_num, wbgt_applicable, precip_level) ==
    IF precip_level = "extreme"
    THEN <<"Suspend outdoor training due to dangerous precipitation (lightning/ice).", 3>>
    ELSE IF wbgt_applicable /\ ~IsNone(heat_cat_num)
    THEN (IF Val(heat_cat_num) >= 5
          THEN <<"Light clothing only; no armor; full hydration and move indoors", 3>>
          ELSE IF Val(heat_cat_num) = 4
          THEN <<"Light OCP/PT, reduce load, hydrate frequently", 2>>
          ELSE IF Val(heat_cat_num) = 3
          THEN <<"OCP, consider modified load and frequent water breaks", 1>>
          ELSE <<"Standard OCP/PT uniform", 0>>)
    ELSE IF ~IsNone(wc) /\ Val(wc) <= -20000
    THEN <<"Arctic clothing / extreme cold gear. No exposed skin. No outdoor training.", 3>>
    ELSE IF ~IsNone(wc) /\ Val(wc) <= 0
    THEN <<"Parka + layered clothing + gloves + balaclava. Move indoors for prolonged training.", 2>>
    ELSE IF ~IsNone(wc) /\ Val(wc) <= 20000
    THEN <<"OCP + parka + gloves + warm layers. Limit prolonged exposed activities.", 2>>
    ELSE IF ~IsNone(wc) /\ Val(wc) <= 32000
    THEN <<"OCP + fleece + gloves recommended.", 1>>
    ELSE IF temp_f <= 500 /\ temp_f > 330
    THEN <<"OCP + fleece optional; monitor wind and wetness.", 1>>
    ELSE <<"Standard OCP/PT uniform", 0>>

\* float(temp_f) of recommend_pt_uniform: the argument is a number
\* <<"num", tenths>>, a str <<"str", chars>> or None <<"none">>; the result
\* is None when float() raises.
Float(x) ==
    CASE x[1] = "num"  -> Some(x[2])
      [] x[1] = "str"  -> ParseFloat(x[2])
      [] x[1] = "none" -> None

recommend_pt_uniform(temp_f) ==
    LET f == Float(temp_f)
        t == Val(f)
    IN  IF IsNone(f) THEN "Standard PT uniform"
        ELSE IF t > 800 THEN "Short-sleeve shirt + shorts"
        ELSE IF 600 <= t /\ t <= 800
        THEN "Short-sleeve shirt + shorts (light jacket optional)"
        ELSE IF 400 <= t /\ t <= 590 THEN "Long-sleeve shirt + pants"
        ELSE IF 200 <= t /\ t <= 390 THEN "Sweats + jacket (+ hat optional)"
        ELSE "Full cold-weather PT gear (sweats, gloves, hat)"

\* The decision texts; the dash of the source texts is written "-".
D_EXTREME_COLD == "NO OUTDOOR TRAINING - EXTREME COLD"
D_MOVE_INDOORS == "MOVE TRAINING INDOORS / HIGH COLD RISK"
D_LIMIT_COLD == "LIMIT OUTDOOR TRAINING / USE INDOORS WHEN POSSIBLE (COLD CAUTION)"
D_LIMIT_PRECIP == "LIMIT OUTDOOR TRAINING / USE INDOORS WHEN POSSIBLE (PRECIPITATION)"
D_EXTREME_HEAT == "NO OUTDOOR TRAINING - EXTREME HEAT (BLACK FLAG)"
D_LIMIT_HEAT == "LIMIT OUTDOOR TRAINING / USE INDOORS WHEN POSSIBLE (HEAT)"
D_CAUTION_HEAT == "TRAIN OUTDOORS WITH CAUTION (HEAT)"
D_TRAIN == "TRAIN OUTDOORS (NO RESTRICTIONS)"

\* Mutant: the precipitation-high rule tested before the cold rules.
final_training_decision_precipfirst(temp_f, wc, heat_cat_num, wbgt_applicable, precip_override, precip_level) ==
    IF ~IsNone(precip_override) THEN Val(precip_override)
    ELSE IF precip_level = "high" THEN D_LIMIT_PRECIP
    ELSE IF ~IsNone(wc) /\ Val(wc) <= -20000 THEN D_EXTREME_COLD
    ELSE IF ~IsNone(wc) /\ Val(wc) <= 0 THEN D_MOVE_INDOORS
    ELSE IF ~IsNone(wc) /\ Val(wc) <= 20000 THEN D_LIMIT_COLD
    ELSE IF wbgt_applicable /\ ~IsNone(heat_cat_num)
    THEN (IF Val(heat_cat_num) >= 5 THEN D_EXTREME_HEAT
          ELSE IF Val(heat_cat_num) = 4 THEN D_LIMIT_HEAT
          ELSE IF Val(heat_cat_num) = 3 THEN D_CAUTION_HEAT
          ELSE D_TRAIN)
    ELSE D_TRAIN

\* Mutant: an absent wind chill read as the measurement 0.
final_training_decision_nonezero(temp_f, wc, heat_cat_num, wbgt_applicable, precip_override, precip_level) ==
    IF ~IsNone(precip_override) THEN Val(precip_override)
    ELSE IF (IF IsNone(wc) THEN 0 ELSE Val(wc)) <= -20000 THEN D_EXTREME_COLD
    ELSE IF (IF IsNone(wc) THEN 0 ELSE Val(wc)) <= 0 THEN D_MOVE_INDOORS
    ELSE IF (IF IsNone(wc) THEN 0 ELSE Val(wc)) <= 20000 THEN D_LIMIT_COLD
    ELSE IF precip_level = "high" THEN D_LIMIT_PRECIP
    ELSE IF wbgt_applicable /\ ~IsNone(heat_cat_num)
    THEN (IF Val(heat_cat_num) >= 5 THEN D_EXTREME_HEAT
          ELSE IF Val(heat_cat_num) = 4 THEN D_LIMIT_HEAT
          ELSE IF Val(heat_cat_num) = 3 THEN D_CAUTION_HEAT
          ELSE D_TRAIN)
    ELSE D_TRAIN

\* `if precip_override:` is Python truthiness: None is false, and the
\* override texts the classifier produces are non-empty, hence true.
final_training_decision(temp_f, wc, heat_cat_num, wbgt_applicable, precip_override, precip_level) ==
    IF ~IsNone(precip_override) THEN Val(precip_override)
    ELSE IF ~IsNone(wc) /\ Val(wc) <= -20000 THEN D_EXTREME_COLD
    ELSE IF ~IsNone(wc) /\ Val(wc) <= 0 THEN D_MOVE_INDOORS
    ELSE IF ~IsNone(wc) /\ Val(wc) <= 20000 THEN D_LIMIT_COLD
    ELSE IF precip_level = "high" THEN D_LIMIT_PRECIP
    ELSE IF wbgt_applicable /\ ~IsNone(heat_cat_num)
    THEN (IF Val(heat_cat_num) >= 5 THEN D_EXTREME_HEAT
          ELSE IF Val(heat_cat_num) = 4 THEN D_LIMIT_HEAT
          ELSE IF Val(heat_cat_num) = 3 THEN D_CAUTION_HEAT
          ELSE D_TRAIN)
    ELSE D_TRAIN


\* ---------------------------------------------------------------------
\* Views: the evaluation of one observation (current conditions, one
\* forecast day, one weekly row)
\* ---------------------------------------------------------------------
\* dashboard, current view.  rh in tenths of a percent, clouds in percent.
CurrentView(temp_f, rh, wind_mph, clouds, weather_text) ==
    LET sunny   == clouds < 30
        temp_c  == Round2(f_to_c(temp_f))
        wbgt_c  == approx_wbgt(temp_c, rh, sunny)
        wbgt_f  == RoundDiv(Round2(c_to_f(wbgt_c)), 100)
        wc      == wind_chill_f(temp_f, wind_mph)
        wbgt_applicable == temp_f > WBGT_CUTOFF_F
        heat    == IF wbgt_applicable
                   THEN <<heat_category_from_wbgt_f(wbgt_f)[1],
                          Some(heat_category_from_wbgt_f(wbgt_f)[2])>>
                   ELSE <<"N/A (cold)", None>>
        pc      == interpret_condition(Some(weather_text))
        u       == recommend_uniform_option_a(temp_f, wc, heat[2], wbgt_applicable, pc[1])
    IN  [temp_f |-> temp_f, wind_mph |-> wind_mph, wbgt_f |-> wbgt_f, wc |-> wc,
         wbgt_applicable |-> wbgt_applicable,
         heat_label |-> heat[1], heat_num |-> heat[2],
         precip_level |-> pc[1], cond_note |-> pc[2], precip_override |-> pc[3],
         uniform |-> u[1], uniform_level |-> u[2],
         final |-> final_training_decision(temp_f, wc, heat[2], wbgt_applicable, pc[3], pc[1]),
         pt_uniform |-> recommend_pt_uniform(<<"num", temp_f>>)]

\* dashboard, one entry of forecast_out
ForecastDayView(day) ==
    LET cond_l  == Lower(day.text)
        precip  == IF Contains(cond_l, K_snow) \/ Contains(cond_l, K_flurr)
                      \/ day.daily_chance_of_snow > 20
                   THEN "Snow/Flurries"
                   ELSE IF Contains(cond_l, K_rain) \/ day.daily_chance_of_rain > 20
                   THEN "Rain" ELSE "None"
        avg_f   == day.avgtemp_f
        clouds_pct == IF day.daily_chance_of_rain >= day.daily_chance_of_snow
                      THEN day.daily_chance_of_rain ELSE day.daily_chance_of_snow
        sunny_d == clouds_pct < 30
        wbgt_c_d == approx_wbgt(day.avgtemp_c, day.avghumidity, sunny_d)
        wbgt_f_d == RoundDiv(Round1(c_to_f(wbgt_c_d)), 100)
        wc_d    == wind_chill_f(avg_f, day.maxwind_mph)
        wbgt_app_d == avg_f > WBGT_CUTOFF_F
        heat    == IF wbgt_app_d
                   THEN <<heat_category_from_wbgt_f(wbgt_f_d)[1],
                          Some(heat_category_from_wbgt_f(wbgt_f_d)[2])>>
                   ELSE <<"Cold", None>>
        pc      == interpret_condition(Some(day.text))
        u       == recommend_uniform_option_a(avg_f, wc_d, heat[2], wbgt_app_d, pc[1])
    IN  [temp_f |-> avg_f, wind_mph |-> day.maxwind_mph, wbgt_f |-> wbgt_f_d, wc |-> wc_d,
         wbgt_applicable |-> wbgt_app_d,
         heat_label |-> heat[1], heat_num |-> heat[2],
         precip_type |-> precip,
         precip_level |-> pc[1], cond_note |-> pc[2], precip_override |-> pc[3],
         uniform |-> u[1], uniform_level |-> u[2],
         final |-> final_training_decision(avg_f, wc_d, heat[2], wbgt_app_d, pc[3], pc[1]),
         pt_uniform |-> recommend_pt_uniform(<<"num", avg_f>>)]

\* weekly, one entry of rows.  int(avghumidity) truncates to a whole
\* percent; round(maxwind_mph, 1) leaves a wind speed in tenths unchanged.
WeeklyRow(day) ==
    LET avg_f   == day.avgtemp_f
        rh      == (day.avghumidity \div 10) * 10
        wind    == day.maxwind_mph
        clouds_pct == IF day.daily_chance_of_rain >= day.daily_chance_of_snow
                      THEN day.daily_chance_of_rain ELSE day.daily_chance_of_snow
        temp_c  == f_to_c(avg_f)
        sunny   == clouds_pct < 30
        wbgt_c  == approx_wbgt(temp_c, rh, sunny)
        wbgt_f  == RoundDiv(Round1(c_to_f(wbgt_c)), 100)
        wc      == wind_chill_f(avg_f, wind)
        wbgt_app == avg_f > WBGT_CUTOFF_F
        heat    == IF wbgt_app
                   THEN <<heat_category_from_wbgt_f(wbgt_f)[1],
                          Some(heat_category_from_wbgt_f(wbgt_f)[2])>>
                   ELSE <<"N/A", None>>
        pc      == interpret_condition(Some(day.text))
        u       == recommend_uniform_option_a(avg_f, wc, heat[2], wbgt_app, pc[1])
    IN  [temp_f |-> avg_f, wind_mph |-> wind, wbgt_f |-> wbgt_f, wc |-> wc,
         wbgt_applicable |-> wbgt_app,
         heat_label |-> heat[1], heat_num |-> heat[2],
         precip_level |-> pc[1], cond_note |-> pc[2], precip_override |-> pc[3],
         uniform |-> u[1], uniform_level |-> u[2],
         final |-> final_training_decision(avg_f, wc, heat[2], wbgt_app, pc[3], pc[1]),
         pt_uniform |-> recommend_pt_uniform(<<"num", avg_f>>)]


\* ---------------------------------------------------------------------
\* Bounds and inputs
\* ---------------------------------------------------------------------
\* longest forecast list the collaborator returns in the model
MaxDays == 2

\* longest condition text, in words, handed to interpret_condition directly
MaxWords == 2

\* WBGT values handed to heat_category_from_wbgt_f directly: every
\* hundredth of a degree from WbgtLo to WbgtHi
WbgtLo == 7700

WbgtHi == 9100

\* temperatures handed to recommend_pt_uniform directly: every tenth of a
\* degree from PtLo to PtHi
PtLo == 150

PtHi == 850

SeqsUpTo(S, n) == UNION {[1..k -> S] : k \in 0..n}

Words == <<
    <<"L","i","g","h","t">>,
    <<"H","e","a","v","y">>,
    <<"F","r","e","e","z","i","n","g">>,
    <<"r","a","i","n">>,
    <<"s","n","o","w">>,
    <<"d","r","i","z","z","l","e">>,
    <<"T","h","u","n","d","e","r","y">>,
    <<"B","L","I","Z","Z","A","R","D">>,
    <<"s","l","e","e","t">>,
    <<"I","c","e">>,
    <<"f","o","g">>,
    <<"s","h","o","w","e","r","s">>,
    <<"C","l","e","a","r">>,
    <<"T","o","r","r","e","n","t","i","a","l">>,
    <<"S","t","o","r","m">>,
    <<"M","i","s","t">>,
    <<"f","l","u","r","r","i","e","s">>,
    <<"i","c","y">> >>

\* the texts of exactly n words, joined by single spaces
RECURSIVE Phrases(_)
Phrases(n) ==
    IF n = 0 THEN {<<>>}
    ELSE IF n = 1 THEN {Words[i] : i \in 1..Len(Words)}
    ELSE {p \o <<" ">> \o Words[i] : p \in Phrases(n - 1), i \in 1..Len(Words)}

CondInputs == {None} \cup {Some(p) : p \in UNION {Phrases(k) : k \in 0..MaxWords}}

TempVals == {-200, -50, 100, 250, 320, 330, 331, 335, 450, 500, 501, 595, 950}

WindVals == {0, 30, 31, 50, 100, 150, 250}

WcOpts == {None} \cup {Some(v) : v \in {-25000, -20000, -19999, 0, 1,
                                        20000, 20001, 32000, 32001, 42340}}

HeatOpts == {None} \cup {Some(n) : n \in 1..5}

Levels == {"low", "moderate", "high", "extreme"}

OverrideOpts == {None, Some("NO OUTDOOR TRAINING"), Some("NO OUTDOOR_TRAINING")}

PtInputs == {<<"num", t>> : t \in PtLo..PtHi}
            \cup {<<"num", -100>>, <<"num", 1000>>}
            \cup {<<"str", <<"5","9",".","5">>>>, <<"str", <<"a","b","c">>>>, <<"str", <<>> >>, <<"none">>}

\* query parameter values: omitted (""), blank, non-numeric, numeric
Q_blank == <<" ">>
Q_abc == <<"a","b","c">>
Q_83_7 == <<"8","3",".","7">>
Q_45 == <<"4","5">>
Q_81 == <<"8","1">>
Q_15 == <<"1","5">>

TempParams == {<<>>, Q_abc, Q_83_7, Q_45}

RhParams == {<<>>, Q_abc, Q_81}

WindParams == {<<>>, Q_blank, Q_abc, Q_15}

\* what the collaborator can answer: j["current"] of current.json
CurrentObservations == {
    [tz_id |-> "America/Chicago", temp_f |-> 950, humidity |-> 600, wind_mph |-> 50,
     cloud |-> 10, text |-> <<"S","u","n","n","y">>],
    [tz_id |-> "America/Chicago", temp_f |-> 100, humidity |-> 700, wind_mph |-> 150,
     cloud |-> 100, text |-> <<"L","i","g","h","t"," ","s","n","o","w">>],
    [tz_id |-> "America/Chicago", temp_f |-> 500, humidity |-> 500, wind_mph |-> 100,
     cloud |-> 50, text |-> <<"P","a","r","t","l","y"," ","c","l","o","u","d","y">>],
    [tz_id |-> "America/Chicago", temp_f |-> 1000, humidity |-> 600, wind_mph |-> 100,
     cloud |-> 100, text |-> <<"H","e","a","v","y"," ","r","a","i","n">>],
    [tz_id |-> "America/Chicago", temp_f |-> -50, humidity |-> 800, wind_mph |-> 250,
     cloud |-> 100, text |-> <<"B","l","i","z","z","a","r","d">>],
    [tz_id |-> "America/Chicago", temp_f |-> 450, humidity |-> 900, wind_mph |-> 50,
     cloud |-> 100, text |-> <<"L","i","g","h","t"," ","r","a","i","n">>] }

\* one element of forecast.forecastday of forecast.json (its "day" part)
ForecastDays == {
    [date |-> "d1", avgtemp_f |-> 950, avgtemp_c |-> 350000, avghumidity |-> 600,
     maxwind_mph |-> 50, daily_chance_of_rain |-> 0, daily_chance_of_snow |-> 0,
     text |-> <<"S","u","n","n","y">>],
    [date |-> "d2", avgtemp_f |-> 100, avgtemp_c |-> -122000, avghumidity |-> 700,
     maxwind_mph |-> 150, daily_chance_of_rain |-> 0, daily_chance_of_snow |-> 80,
     text |-> <<"H","e","a","v","y"," ","s","n","o","w">>],
    [date |-> "d3", avgtemp_f |-> 500, avgtemp_c |-> 100000, avghumidity |-> 500,
     maxwind_mph |-> 30, daily_chance_of_rain |-> 60, daily_chance_of_snow |-> 0,
     text |-> <<"L","i","g","h","t"," ","r","a","i","n">>],
    [date |-> "d4", avgtemp_f |-> 1000, avgtemp_c |-> 378000, avghumidity |-> 600,
     maxwind_mph |-> 100, daily_chance_of_rain |-> 90, daily_chance_of_snow |-> 0,
     text |-> <<"H","e","a","v","y"," ","r","a","i","n">>],
    [date |-> "d5", avgtemp_f |-> -50, avgtemp_c |-> -206000, avghumidity |-> 800,
     maxwind_mph |-> 250, daily_chance_of_rain |-> 0, daily_chance_of_snow |-> 90,
     text |-> <<"B","l","i","z","z","a","r","d">>] }

\* requests.get raising (timeout, connection) or raise_for_status raising
FetchErrors == {"ConnectionError", "HTTPError 400 Bad Request"}

\* outcome of one collaborator call: failure with its cause, or the data
CurrentResults ==
    {[ok |-> FALSE, cause |-> e, data |-> None] : e \in FetchErrors}
    \cup {[ok |-> TRUE, cause |-> "", data |-> Some(o)] : o \in CurrentObservations}

ForecastResults ==
    {[ok |-> FALSE, cause |-> e, data |-> None] : e \in FetchErrors}
    \cup {[ok |-> TRUE, cause |-> "", data |-> Some(ds)] : ds \in SeqsUpTo(ForecastDays, MaxDays)}


\* ---------------------------------------------------------------------
\* Request handlers
\* ---------------------------------------------------------------------
Fetched(fn, r) == [fn |-> fn, ok |-> r.ok, cause |-> r.cause]

Reply(status, body, cause, current, forecast, rows) ==
    [status |-> status, body |-> body, cause |-> cause,
     current |-> current, forecast |-> forecast, rows |-> rows]

\* The forecast block and the rendering of dashboard(): fetch_forecast is
\* called in every request that reaches it; when it raises, forecast_days
\* is the empty list.
DashboardPage(view, fc, before) ==
    LET forecast_days == IF fc.ok THEN Val(fc.data) ELSE <<>>
        forecast_out  == [i \in 1..Len(forecast_days) |-> ForecastDayView(forecast_days[i])]
    IN  [fetches  |-> Append(before, Fetched("fetch_forecast", fc)),
         response |-> Reply(200, "PAGE_HTML", None, Some(view), forecast_out, <<>>)]

\* dashboard(): a_temp_f, a_rh, a_wind are the raw query parameters ("" when
\* omitted), cur and fc what the collaborator answers if it is asked.
\* Result: the collaborator calls made, in order, and the response.
dashboard(a_temp_f, a_rh, a_wind, cur, fc) ==
    LET q_temp_f == Strip(a_temp_f)
        q_rh     == Strip(a_rh)
        q_wind   == Strip(a_wind)
    IN  IF q_temp_f # <<>> /\ q_rh # <<>>
        THEN LET temp_f   == ParseFloat(q_temp_f)
                 rh       == ParseFloat(q_rh)
                 wind_mph == IF q_wind # <<>> THEN ParseFloat(q_wind) ELSE Some(30)
             IN  IF IsNone(temp_f) \/ IsNone(rh) \/ IsNone(wind_mph)
                 THEN [fetches  |-> <<>>,
                       response |-> Reply(400, "Invalid manual input (temp/rh/wind must be numbers)",
                                          None, None, <<>>, <<>>)]
                 ELSE DashboardPage(CurrentView(Val(temp_f), Val(rh), Val(wind_mph), 0,
                                                <<"M","a","n","u","a","l">>),
                                    fc, <<>>)
        ELSE IF ~cur.ok
        THEN [fetches  |-> <<Fetched("fetch_current_weather", cur)>>,
              response |-> Reply(500, "Weather fetch failed", Some(cur.cause), None, <<>>, <<>>)]
        ELSE LET weather == Val(cur.data)
             IN  DashboardPage(CurrentView(weather.temp_f, weather.humidity, weather.wind_mph,
                                           weather.cloud, weather.text),
                               fc, <<Fetched("fetch_current_weather", cur)>>)

\* weekly()
weekly(raw) ==
    IF ~raw.ok
    THEN [fetches  |-> <<Fetched("fetch_forecast", raw)>>,
          response |-> Reply(500, "Forecast fetch failed", Some(raw.cause), None, <<>>, <<>>)]
    ELSE LET days == Val(raw.data)
         IN  [fetches  |-> <<Fetched("fetch_forecast", raw)>>,
              response |-> Reply(200, "WEEKLY_HTML", None, None, <<>>,
                                 [i \in 1..Len(days) |-> WeeklyRow(days[i])])]

\* ---------------------------------------------------------------------
\* State machine
\* ---------------------------------------------------------------------
NoCall == [fn |-> "none", args |-> <<>>, result |-> <<>>]

NoRequest == [route |-> "none", temp_f |-> <<>>, rh |-> <<>>, wind_mph |-> <<>>]

Init ==
    /\ call = NoCall
    /\ request = NoRequest
    /\ fetches = <<>>
    /\ response = Reply(0, "", None, None, <<>>, <<>>)

\* GET / : one request, handled from start to finish
Dashboard ==
    /\ request = NoRequest
    /\ \E a_temp_f \in TempParams, a_rh \in RhParams, a_wind \in WindParams,
       cur \in CurrentResults, fc \in ForecastResults :
        /\ request' = [route |-> "dashboard", temp_f |-> a_temp_f,
                       rh |-> a_rh, wind_mph |-> a_wind]
        /\ \E out \in {dashboard(a_temp_f, a_rh, a_wind, cur, fc)} :
               /\ fetches' = out.fetches
               /\ response' = out.response
        /\ UNCHANGED call

\* GET /weekly : one request, handled from start to finish
Weekly ==
    /\ request = NoRequest
    /\ \E raw \in ForecastResults :
        /\ request' = [route |-> "weekly", temp_f |-> <<>>, rh |-> <<>>, wind_mph |-> <<>>]
        /\ \E out \in {weekly(raw)} :
               /\ fetches' = out.fetches
               /\ response' = out.response
        /\ UNCHANGED call

\* The response has been sent: nothing of a request outlives it (the
\* handlers keep everything in locals), and the next request is served.
Finish ==
    /\ request # NoRequest
    /\ request' = NoRequest
    /\ fetches' = <<>>
    /\ response' = Reply(0, "", None, None, <<>>, <<>>)
    /\ UNCHANGED call

Next == Dashboard \/ Weekly \/ Finish

Spec == Init /\ [][Next]_vars

\* ---------------------------------------------------------------------
\* The functions of the guidance engine applied to enumerated arguments
\* ---------------------------------------------------------------------
Call_wind_chill_f ==
    /\ call = NoCall
    /\ UNCHANGED <<request, fetches, response>>
    /\ \E Tf \in TempVals, wind_mph \in WindVals :
        call' = [fn |-> "wind_chill_f", args |-> <<Tf, wind_mph>>,
                 result |-> wind_chill_f(Tf, wind_mph)]

Call_heat_category_from_wbgt_f ==
    /\ call = NoCall
    /\ UNCHANGED <<request, fetches, response>>
    /\ \E wbgt_f \in WbgtLo..WbgtHi :
        call' = [fn |-> "heat_category_from_wbgt_f", args |-> <<wbgt_f>>,
                 result |-> heat_category_from_wbgt_f(wbgt_f)]

Call_interpret_condition ==
    /\ call = NoCall
    /\ UNCHANGED <<request, fetches, response>>
    /\ \E cond_text \in CondInputs :
        call' = [fn |-> "interpret_condition", args |-> <<cond_text>>,
                 result |-> interpret_condition(cond_text)]

Call_recommend_uniform_option_a ==
    /\ call = NoCall
    /\ UNCHANGED <<request, fetches, response>>
    /\ \E temp_f \in TempVals, wc \in WcOpts, heat_cat_num \in HeatOpts,
       wbgt_applicable \in BOOLEAN, precip_level \in Levels :
        call' = [fn |-> "recommend_uniform_option_a",
                 args |-> <<temp_f, wc, heat_cat_num, wbgt_applicable, precip_level>>,
                 result |-> recommend_uniform_option_a(temp_f, wc, heat_cat_num,
                                                       wbgt_applicable, precip_level)]

Call_recommend_pt_uniform ==
    /\ call = NoCall
    /\ UNCHANGED <<request, fetches, response>>
    /\ \E temp_f \in PtInputs :
        call' = [fn |-> "recommend_pt_uniform", args |-> <<temp_f>>,
                 result |-> recommend_pt_uniform(temp_f)]

Call_final_training_decision ==
    /\ call = NoCall
    /\ UNCHANGED <<request, fetches, response>>
    /\ \E temp_f \in {100, 950}, wc \in WcOpts, heat_cat_num \in HeatOpts,
       wbgt_applicable \in BOOLEAN, precip_override \in OverrideOpts,
       precip_level \in Levels :
        call' = [fn |-> "final_training_decision",
                 args |-> <<temp_f, wc, heat_cat_num, wbgt_applicable,
                            precip_override, precip_level>>,
                 result |-> final_training_decision(temp_f, wc, heat_cat_num,
                                wbgt_applicable, precip_override, precip_level)]

\* the function has returned; the next application starts afresh
Return ==
    /\ call # NoCall
    /\ call' = NoCall
    /\ UNCHANGED <<request, fetches, response>>

NextFn ==
    \/ Return
    \/ Call_wind_chill_f
    \/ Call_heat_category_from_wbgt_f
    \/ Call_interpret_condition
    \/ Call_recommend_uniform_option_a
    \/ Call_recommend_pt_uniform
    \/ Call_final_training_decision

SpecFn == Init /\ [][NextFn]_vars


\* ---------------------------------------------------------------------
\* Properties
\* ---------------------------------------------------------------------
\* P holds of every evaluation the response carries: the current view,
\* each forecast day, each weekly row.
EveryView(P(_)) ==
    /\ ~IsNone(response.current) => P(Val(response.current))
    /\ \A i \in 1..Len(response.forecast) : P(response.forecast[i])
    /\ \A i \in 1..Len(response.rows) : P(response.rows[i])

SomeView(P(_)) ==
    \/ ~IsNone(response.current) /\ P(Val(response.current))
    \/ \E i \in 1..Len(response.forecast) : P(response.forecast[i])
    \/ \E i \in 1..Len(response.rows) : P(response.rows[i])

ColdOutcomes == {D_EXTREME_COLD, D_MOVE_INDOORS, D_LIMIT_COLD}

\* The number of the first rule of the final-decision list that matches.
C1_FirstRule(wc, heat, app, ov, lvl) ==
    CASE ~IsNone(ov)                        -> 1
      [] IsNone(ov) /\ ~IsNone(wc) /\ Val(wc) <= -20000 -> 2
      [] IsNone(ov) /\ ~IsNone(wc) /\ Val(wc) > -20000 /\ Val(wc) <= 0 -> 3
      [] IsNone(ov) /\ ~IsNone(wc) /\ Val(wc) > 0 /\ Val(wc) <= 20000 -> 4
      [] OTHER ->
           IF lvl = "high" THEN 5
           ELSE IF app /\ heat = Some(5) THEN 6
           ELSE IF app /\ heat = Some(4) THEN 7
           ELSE IF app /\ heat = Some(3) THEN 8
           ELSE 9

C1_Outcomes == <<"", D_EXTREME_COLD, D_MOVE_INDOORS, D_LIMIT_COLD, D_LIMIT_PRECIP,
                 D_EXTREME_HEAT, D_LIMIT_HEAT, D_CAUTION_HEAT, D_TRAIN>>

\* C1: final_training_decision returns the outcome of the first matching
\* rule in the fixed order override, wind chill <= -20, <= 0, <= 20,
\* precipitation high, heat category 5, 4, 3 (the heat rules under WBGT
\* applicable), otherwise train outdoors; a present override is returned
\* verbatim, and every cold outcome wins over precipitation-high and over
\* every heat outcome.
C1_FirstMatchOrder ==
    call.fn = "final_training_decision" =>
        LET wc   == call.args[2]
            heat == call.args[3]
            app  == call.args[4]
            ov   == call.args[5]
            lvl  == call.args[6]
            rule == C1_FirstRule(wc, heat, app, ov, lvl)
        IN  /\ rule = 1 => call.result = Val(ov)
            /\ rule # 1 => call.result = C1_Outcomes[rule]
            /\ (IsNone(ov) /\ ~IsNone(wc) /\ Val(wc) <= 20000)
                   => call.result \in ColdOutcomes

\* C1 witness: extreme wind chill together with precipitation high and
\* heat category 5, no override: the cold outcome is returned.
C1_Witness ==
    /\ call.fn = "final_training_decision"
    /\ call.args[2] = Some(-25000)
    /\ call.args[3] = Some(5)
    /\ call.args[4] = TRUE
    /\ call.args[5] = None
    /\ call.args[6] = "high"
    /\ call.result = D_EXTREME_COLD

\* The heat table read as half-open intervals with inclusive lower bounds.
HalfOpenBand(wbgt_f) ==
    IF wbgt_f < 7800 THEN <<"Below White", 1>>
    ELSE IF wbgt_f < 8200 THEN <<"White (Cat 1)", 1>>
    ELSE IF wbgt_f < 8500 THEN <<"Green (Cat 2)", 2>>
    ELSE IF wbgt_f < 8800 THEN <<"Yellow (Cat 3)", 3>>
    ELSE IF wbgt_f < 9000 THEN <<"Red (Cat 4)", 4>>
    ELSE <<"Black (Cat 5)", 5>>

C2_ViewInBand(v) ==
    v.wbgt_applicable =>
        /\ v.heat_label = HalfOpenBand(v.wbgt_f)[1]
        /\ v.heat_num = Some(HalfOpenBand(v.wbgt_f)[2])

\* C2: every WBGT value, at the resolution the views produce, is mapped to
\* the band of the table read as half-open intervals [78,82) [82,85)
\* [85,88) [88,90), in every view that evaluates the heat category.
C2_HalfOpenBands == EveryView(C2_ViewInBand)

\* C3 (as stated): once the precipitation rule and the heat rule do not
\* apply and wind chill is defined, the uniform is one of the four
\* wind-chill outcomes: the temperature rule and the standard uniform are
\* reached only when wind chill is not defined.
C3_TemperatureRulesOnlyWithoutWindChill ==
    (/\ call.fn = "recommend_uniform_option_a"
     /\ call.args[5] # "extreme"
     /\ ~(call.args[4] /\ ~IsNone(call.args[3]))
     /\ ~IsNone(call.args[2]))
    => call.result[1] \in
          {"Arctic clothing / extreme cold gear. No exposed skin. No outdoor training.",
           "Parka + layered clothing + gloves + balaclava. Move indoors for prolonged training.",
           "OCP + parka + gloves + warm layers. Limit prolonged exposed activities.",
           "OCP + fleece + gloves recommended."}

\* The number of the first rule of the uniform list that matches, rule 3
\* matching only a defined wind chill of at most 32 F.
C3_FirstRule(temp_f, wc, heat, app, lvl) ==
    IF lvl = "extreme" THEN 1
    ELSE IF app /\ ~IsNone(heat) THEN 2
    ELSE IF ~IsNone(wc) /\ Val(wc) <= 32000 THEN 3
    ELSE IF 330 < temp_f /\ temp_f <= 500 THEN 4
    ELSE 5

\* C3 (amended): recommend_uniform_option_a returns the result of the
\* first matching rule: extreme precipitation -> 3; WBGT applicable with a
\* known category -> 5:3, 4:2, 3:1, lower:0; wind chill defined and <= 32
\* -> <=-20:3, <=0:2, <=20:2, <=32:1; 33 < temperature <= 50 -> 1;
\* otherwise 0.  Rules 4 and 5 are reached when wind chill is not defined
\* or is above 32 F.  The severity is in 0..3.
C3_FirstMatchUniform ==
    call.fn = "recommend_uniform_option_a" =>
        LET temp_f == call.args[1]
            wc     == call.args[2]
            heat   == call.args[3]
            rule   == C3_FirstRule(temp_f, wc, heat, call.args[4], call.args[5])
            sev    == call.result[2]
        IN  /\ sev \in 0..3
            /\ rule = 1 => sev = 3
            /\ rule = 2 => sev = (CASE Val(heat) = 5 -> 3 [] Val(heat) = 4 -> 2
                                    [] Val(heat) = 3 -> 1 [] OTHER -> 0)
            /\ rule = 3 => sev = (IF Val(wc) <= -20000 THEN 3
                                  ELSE IF Val(wc) <= 20000 THEN 2 ELSE 1)
            /\ rule = 4 => call.result = <<"OCP + fleece optional; monitor wind and wetness.", 1>>
            /\ rule = 5 => call.result = <<"Standard OCP/PT uniform", 0>>
            /\ (rule \in {4, 5}) => (IsNone(wc) \/ Val(wc) > 32000)

\* C3 witness: wind chill defined and above 32 F at 45 F: the temperature
\* rule gives the optional fleece.
C3_Witness ==
    /\ call.fn = "recommend_uniform_option_a"
    /\ call.args[1] = 450
    /\ call.args[2] = Some(42340)
    /\ call.args[4] = FALSE
    /\ call.args[5] = "low"
    /\ call.result = <<"OCP + fleece optional; monitor wind and wetness.", 1>>

\* C4: a condition text containing "freezing rain" (any case) is extreme
\* with an override; every extreme class carries the override text
\* "NO OUTDOOR TRAINING"; every other class carries no override.
C4_KeywordPriority ==
    call.fn = "interpret_condition" =>
        LET text  == IF IsNone(call.args[1]) THEN <<>> ELSE Val(call.args[1])
            level == call.result[1]
            ov    == call.result[3]
        IN  /\ Contains(Lower(text), K_freezing_rain) => (level = "extreme" /\ ~IsNone(ov))
            /\ level = "extreme" => ov = Some("NO OUTDOOR TRAINING")
            /\ level # "extreme" => IsNone(ov)

\* C5: a condition text containing "drizzle" or "light rain" and none of
\* the thunder/storm, freezing, sleet/ice, blizzard, snow/flurries, heavy
\* rain/torrential keywords is classified low with no override.
C5_LightRainIsLow ==
    call.fn = "interpret_condition" =>
        LET c == Lower(IF IsNone(call.args[1]) THEN <<>> ELSE Val(call.args[1]))
        IN  (/\ Contains(c, K_drizzle) \/ Contains(c, K_light_rain)
             /\ \A k \in {K_thunder, K_storm, K_freezing, K_sleet, K_ice, K_icy,
                          K_blizzard, K_snow, K_flurr, K_heavy_rain, K_torrential} :
                    ~Contains(c, k))
            => (call.result[1] = "low" /\ IsNone(call.result[3]))

\* C6: recommend_pt_uniform is a banding without gaps over every numeric
\* temperature: > 80, [60,80], [40,60), [20,40), and full cold-weather
\* gear only below 20; non-numeric input gives "Standard PT uniform".
C6_TotalBanding ==
    call.fn = "recommend_pt_uniform" =>
        LET f == Float(call.args[1])
            t == Val(f)
        IN  call.result =
               (IF IsNone(f) THEN "Standard PT uniform"
                ELSE IF t > 800 THEN "Short-sleeve shirt + shorts"
                ELSE IF t >= 600 THEN "Short-sleeve shirt + shorts (light jacket optional)"
                ELSE IF t >= 400 THEN "Long-sleeve shirt + pants"
                ELSE IF t >= 200 THEN "Sweats + jacket (+ hat optional)"
                ELSE "Full cold-weather PT gear (sweats, gloves, hat)")

C7_ViewOK(v) ==
    /\ IsNone(v.wc) <=> (v.temp_f > 500 \/ v.wind_mph <= 30)
    /\ ~(v.wbgt_applicable /\ ~IsNone(v.wc))

\* C7: in every evaluation (current view, forecast day, weekly row) wind
\* chill is absent exactly when temperature > 50 F or wind <= 3 mph, and
\* WBGT applicable and wind chill defined are never both true.
C7_WindChillDefinedness == EveryView(C7_ViewOK)

C7_AtCutoff(v) == v.temp_f = 500 /\ ~IsNone(v.wc) /\ ~v.wbgt_applicable

\* C7 witness: a view at exactly 50 F with wind above 3 mph: wind chill
\* is defined and WBGT is not applicable.
C7_Witness == SomeView(C7_AtCutoff)

Supplied(a) == Strip(a) # <<>>

NonNumeric(a) == Supplied(a) /\ IsNone(ParseFloat(Strip(a)))

\* C8: a dashboard request in which a supplied manual parameter (temp_f,
\* rh or wind_mph) is non-numeric ends rejected with status 400 and the
\* invalid-manual-input message.
C8_InvalidManualRejected ==
    (/\ request.route = "dashboard"
     /\ NonNumeric(request.temp_f) \/ NonNumeric(request.rh) \/ NonNumeric(request.wind_mph))
    => (/\ response.status = 400
        /\ response.body = "Invalid manual input (temp/rh/wind must be numbers)")

\* C9: a request in which a collaborator call failed ends in an error
\* outcome carrying the cause of that failure, never in a page.
C9_FetchFailureSurfaced ==
    \A i \in 1..Len(fetches) :
        ~fetches[i].ok => (response.status = 500 /\ response.cause = Some(fetches[i].cause))

ValidManual ==
    /\ request.route = "dashboard"
    /\ Supplied(request.temp_f) /\ ~IsNone(ParseFloat(Strip(request.temp_f)))
    /\ Supplied(request.rh) /\ ~IsNone(ParseFloat(Strip(request.rh)))
    /\ ~NonNumeric(request.wind_mph)

\* C10: a dashboard request with valid manual override values is answered
\* without any call of the collaborator.
C10_ManualBypassesCollaborator ==
    ValidManual => fetches = <<>>


HeatOutcomes == {D_EXTREME_HEAT, D_LIMIT_HEAT, D_CAUTION_HEAT}

WindChillUniforms ==
    {"Arctic clothing / extreme cold gear. No exposed skin. No outdoor training.",
     "Parka + layered clothing + gloves + balaclava. Move indoors for prolonged training.",
     "OCP + parka + gloves + warm layers. Limit prolonged exposed activities.",
     "OCP + fleece + gloves recommended."}

HeatUniforms ==
    {"Light clothing only; no armor; full hydration and move indoors",
     "Light OCP/PT, reduce load, hydrate frequently",
     "OCP, consider modified load and frequent water breaks"}

C11_ViewOK(v) ==
    /\ (v.temp_f > 500 \/ v.wind_mph <= 30) =>
           (/\ IsNone(v.wc)
            /\ v.final \notin ColdOutcomes
            /\ v.uniform \notin WindChillUniforms)
    /\ (v.temp_f <= 500) =>
           (/\ IsNone(v.heat_num)
            /\ v.final \notin HeatOutcomes
            /\ v.uniform \notin HeatUniforms)

\* C11: in every view, when wind chill is not applicable (temperature
\* > 50 F or wind <= 3 mph) the decision is no cold outcome and the
\* uniform is no wind-chill band; when the heat category is not applicable
\* (temperature <= 50 F) the decision is no heat outcome and the uniform
\* is not chosen by the heat-category rule.
C11_AbsentNeverMeasured == EveryView(C11_ViewOK)

C11_BothAbsent(v) ==
    /\ v.temp_f = 450 /\ v.wind_mph = 30
    /\ IsNone(v.wc) /\ IsNone(v.heat_num)
    /\ v.final = D_TRAIN
    /\ v.uniform = "OCP + fleece optional; monitor wind and wetness."

\* C11 witness: the manual override at 45 F with the default wind of 3.0
\* mph: wind chill and heat category both absent, the decision is train
\* outdoors and the uniform comes from the temperature rule.
C11_Witness ==
    /\ request.route = "dashboard"
    /\ Supplied(request.temp_f) /\ ~Supplied(request.wind_mph)
    /\ ~IsNone(response.current) /\ C11_BothAbsent(Val(response.current))

C12_ViewAgrees(v) ==
    (v.uniform_level = 3) <=>
        (\/ ~IsNone(v.precip_override)
         \/ v.final = D_EXTREME_COLD
         \/ v.final = D_EXTREME_HEAT)

\* C12: in every evaluation built from one observation the uniform
\* severity is 3 exactly when the final decision is a no-outdoor-training
\* outcome (precipitation override, extreme cold, extreme heat).
C12_SeverityAgreesWithDecision == EveryView(C12_ViewAgrees)

====
